---- MODULE Spec2Model ----
(***************************************************************************)
(* Model of three Quantus metrics: Sufficiency / BatchSufficiency,         *)
(* MaxSensitivity and RelativeRepresentationStability.                     *)
(*                                                                         *)
(* Floating point values are modelled as extended non-negative rationals:  *)
(* a pair <<n, d>> with d >= 0 in lowest terms.  <<n, d>> with d > 0 is    *)
(* the number n/d, <<1, 0>> is +inf and <<0, 0>> is NaN.  Rounding is not  *)
(* modelled.  Arrays are functions over 1..n (instance k of the batch is   *)
(* index k).                                                               *)
(***************************************************************************)
EXTENDS Integers, Sequences, FiniteSets, TLC

\* ---------------------------------------------------------------- bounds
\* Every distance matrix of at most MaxCells entries is enumerated (3 x 3).
MaxCells == 9
\* Largest batch for which the uniform distance matrices are enumerated.
MaxWideBatch == 4
\* Normalised distances are 0 (nearest) or MaxDist (farthest); thresholds are
\* 0..MaxDist, so that a distance is below, at or above the threshold.
MaxDist == 1
\* Predicted classes are 0..MaxClass.
MaxClass == 1
\* Batches of the robustness metrics have 1..MaxRobustBatch instances.
MaxRobustBatch == 2
\* nr_samples is 0..MaxSamples.
MaxSamples == 2
\* Attributions have one feature per instance, with a value in 0..MaxAttr
\* (MaxSensitivity) or in {0, MaxAttr} (RelativeRepresentationStability).
MaxAttr == 1
\* Hidden representations have one unit per instance, the value 0 or MaxRep.
MaxRep == 1
\* MaxSensitivity: similarities has at most MaxSimCells entries
\* (batch_size * nr_samples).
MaxSimCells == 4
\* RelativeRepresentationStability: at most MaxFetchedRows per-instance hidden
\* representations are fetched in one call (batch_size * (nr_samples + 1)).
MaxFetchedRows == 4
\* The attribution array has 1..MaxRank dimensions (batch dimension included).
MaxRank == 5
\* eps_min of the model is 1 / EpsMinInv.
EpsMinInv == 100
\* The engine is run on datasets of 1..MaxDataset instances,
MaxDataset == 3
\* split into batches of at most 1..MaxEngineBatch instances,
MaxEngineBatch == 2
\* with per-instance results 0..MaxResult.
MaxResult == 2
\* An input instance has two feature axes of 1..MaxFeatureDim entries each,
MaxFeatureDim == 2
\* and an input batch has at most MaxPerturbCells entries.
MaxPerturbCells == 4

VARIABLES
    metric,               \* which metric object this behaviour is about
    pc,                   \* position of the call chain
    batch_size,           \* leading dimension of the batch
    dist_matrix,          \* normalised pairwise distance matrix
    threshold,            \* self.threshold
    a_sim_vector_batch,   \* the similarity matrix object of the batch context
    sim_in,               \* value of that object when evaluate_batch was first entered
    y_pred_classes,       \* predicted class per instance
    low_dist_freqs,       \* local of evaluate_batch: row sums
    same_class_freqs,     \* local of evaluate_batch: numerator row sums
    divisor,              \* local of evaluate_batch: np.where(...) result
    scores,               \* value returned by evaluate_batch (<<>> before)
    error,                \* the exception that ended the call, or None
    nr_samples,           \* self.nr_samples / self._nr_samples
    return_nan,           \* return_nan_when_prediction_changes
    max_func,             \* MaxSensitivity: self.max_func
    return_aggregate,     \* self.return_aggregate
    layer_names,          \* RRS: constructor argument / self._layer_names
    layer_indices,        \* RRS: constructor argument / self._layer_indices
    a_batch,              \* attribution of the original batch
    a_ndim,               \* RRS: a_batch.ndim
    internal_representations, \* RRS: hidden representation of x_batch
    step_id,              \* number of samples processed so far
    similarities,         \* MaxSensitivity: results array [instance][sample]
    rrs_batch,            \* RRS: results array [sample][instance]
    a_perturbed,          \* per sample: explanation of the perturbed batch
    reps_perturbed,       \* RRS, per sample: representation of the perturbed batch
    prediction_changed,   \* per sample: instances whose prediction changed
    changed_prediction_indices, \* last sample: what the detector returned
    calls,                \* RRS: the collaborator calls made so far, in order
    rrs_nominator,        \* RRS objective: local nominator, after the norm
    rrs_denominator,      \* RRS objective: local denominator, as divided by
    dataset_results,      \* engine: per-instance results of the whole dataset
    evaluated,            \* engine: number of instances evaluated so far
    evaluation_scores,    \* engine: self.evaluation_scores
    explain_func,         \* the explanation function of the call, or None
    a_batch_supplied,     \* whether the call was given a precomputed a_batch
    x_batch,              \* the input batch: its shape and its flattened data
    perturb_arr,          \* argument arr of the last perturb_func call
    perturb_indices,      \* argument indices of the last perturb_func call
    x_perturbed,          \* the perturbed batch after the reshape
    previous_scores       \* Sufficiency: scores of the previous evaluate_batch

sufficiencyVars == <<dist_matrix, threshold, a_sim_vector_batch, sim_in,
                     y_pred_classes, low_dist_freqs, same_class_freqs, divisor>>

configVars == <<nr_samples, return_nan, max_func, return_aggregate, layer_names,
                layer_indices>>

batchVars == <<a_batch, a_ndim, internal_representations>>

sampleVars == <<step_id, similarities, rrs_batch, a_perturbed, reps_perturbed,
                prediction_changed, changed_prediction_indices>>

objectiveVars == <<rrs_nominator, rrs_denominator>>

engineVars == <<dataset_results, evaluated, evaluation_scores>>

callerVars == <<explain_func, a_batch_supplied>>

perturbVars == <<x_batch, perturb_arr, perturb_indices, x_perturbed>>

vars == <<metric, pc, batch_size, scores, error, sufficiencyVars, configVars,
          batchVars, sampleVars, calls, objectiveVars, engineVars, callerVars,
          perturbVars, previous_scores>>

\* Python's None; also the value of a variable the metric at hand does not have.
None == "None"

\* ------------------------------------------------------- float arithmetic
NaN == <<0, 0>>
Inf == <<1, 0>>
Num(k) == <<k, 1>>

RECURSIVE GCD(_, _)
GCD(a, b) == IF b = 0 THEN a ELSE GCD(b, a % b)

\* Lowest terms; n/0 with n > 0 is +inf, 0/0 is NaN.
Reduce(n, d) ==
    IF d = 0 THEN (IF n = 0 THEN NaN ELSE Inf)
    ELSE LET g == GCD(n, d) IN <<n \div g, d \div g>>

\* x / y of numpy floats: finite/inf = 0, x/0 = inf, 0/0 = inf/inf = NaN,
\* NaN propagates.  No exception is raised.
Div(x, y) == Reduce(x[1] * y[2], x[2] * y[1])

IsNaN(x) == x = NaN
IsFinite(x) == x[2] > 0
\* x <= y of floats: false when either side is NaN.
Leq(x, y) == ~IsNaN(x) /\ ~IsNaN(y) /\ x[1] * y[2] <= y[1] * x[2]
Less(x, y) == Leq(x, y) /\ x # y

\* ------------------------------------------------------------ array helpers
Instances(n) == 1..n

RECURSIVE SumTo(_, _)
\* f[1] + ... + f[k] of an integer vector.
SumTo(f, k) == IF k = 0 THEN 0 ELSE f[k] + SumTo(f, k - 1)

RowSum(m, n) == [i \in Instances(n) |-> SumTo(m[i], n)]

\* Mutant of Eye: np.eye(batch_size, k=1), the ones sit above the diagonal.
Eye_superdiagonal(n) ==
    [i \in Instances(n) |-> [j \in Instances(n) |-> IF i + 1 = j THEN 1 ELSE 0]]

\* np.eye(batch_size)
Eye(n) == [i \in Instances(n) |-> [j \in Instances(n) |-> IF i = j THEN 1 ELSE 0]]

\* ------------------------------------------------------------- Sufficiency
Classes == 0..MaxClass
Thresholds == 0..MaxDist
DistValues == {0, MaxDist}

\* The normalised distance matrices the preprocessing is run on: every matrix
\* of at most MaxCells entries (symmetric or not, any diagonal) and the
\* uniform matrices up to MaxWideBatch instances.
DistMatrices(n) ==
    (IF n * n <= MaxCells THEN [Instances(n) -> [Instances(n) -> DistValues]] ELSE {})
    \cup {[i \in Instances(n) |-> [j \in Instances(n) |-> d]] : d \in DistValues}

\* Mutant of Thresholded: a strict comparison, dist < threshold.
Thresholded_strict(dist, thr, n) ==
    [i \in Instances(n) |-> [j \in Instances(n) |->
        IF dist[i][j] < thr THEN 1 ELSE 0]]

\* a_sim_matrix = zeros_like(dist); a_sim_matrix[dist <= threshold] = 1
Thresholded(dist, thr, n) ==
    [i \in Instances(n) |-> [j \in Instances(n) |->
        IF dist[i][j] <= thr THEN 1 ELSE 0]]

\* Mutant of RemoveSelfLoops: the self-loops are kept.
RemoveSelfLoops_kept(sim, n) == sim

\* Mutant of RemoveSelfLoops: a_sim_vector_batch[diagonal] = 1 - diagonal,
\* a self-loop is removed where there is one and added where there is none.
RemoveSelfLoops_flipped(sim, n) ==
    [i \in Instances(n) |-> [j \in Instances(n) |->
        IF i = j THEN 1 - sim[i][j] ELSE sim[i][j]]]

\* a_sim_vector_batch *= 1 - np.eye(batch_size)
RemoveSelfLoops(sim, n) ==
    [i \in Instances(n) |-> [j \in Instances(n) |-> sim[i][j] * (1 - Eye(n)[i][j])]]

\* Mutant of PredClassesEquality: y_pred_classes == y_pred_classes, without
\* broadcasting, so that every pair counts as of the same class.
PredClassesEquality_unbroadcast(y, n) ==
    [i \in Instances(n) |-> [j \in Instances(n) |-> IF y[j] = y[j] THEN 1 ELSE 0]]

\* y_pred_classes[None] == y_pred_classes[:, None]
PredClassesEquality(y, n) ==
    [i \in Instances(n) |-> [j \in Instances(n) |-> IF y[j] = y[i] THEN 1 ELSE 0]]

\* Mutant of Hadamard: a logical or (a | b) in place of the product.
Hadamard_or(a, b, n) ==
    [i \in Instances(n) |-> [j \in Instances(n) |->
        IF a[i][j] = 1 \/ b[i][j] = 1 THEN 1 ELSE 0]]

\* pred_classes_equality * a_sim_vector_batch
Hadamard(a, b, n) ==
    [i \in Instances(n) |-> [j \in Instances(n) |-> a[i][j] * b[i][j]]]

\* Mutant of Divisor: the row sums are used as they are.
Divisor_unguarded(low, n) == [i \in Instances(n) |-> Num(low[i])]

\* np.where(low_dist_freqs == 0, np.inf, low_dist_freqs)
Divisor(low, n) ==
    [i \in Instances(n) |-> IF low[i] = 0 THEN Inf ELSE Num(low[i])]

InitSufficiency ==
    \E n \in 1..MaxWideBatch :
    \E d \in DistMatrices(n), y \in [Instances(n) -> Classes], t \in Thresholds :
        /\ metric \in {"Sufficiency", "BatchSufficiency"}
        /\ pc = "preprocess"
        /\ batch_size = n
        /\ dist_matrix = d
        /\ threshold = t
        /\ y_pred_classes = y
        /\ a_sim_vector_batch = None
        /\ sim_in = None
        /\ low_dist_freqs = None
        /\ same_class_freqs = None
        /\ divisor = None
        /\ scores = <<>>
        /\ error = None
        /\ nr_samples = None /\ return_nan = None /\ max_func = None
        /\ return_aggregate = None /\ layer_names = None /\ layer_indices = None
        /\ a_batch = None /\ a_ndim = None /\ internal_representations = None
        /\ step_id = None /\ similarities = None /\ rrs_batch = None
        /\ a_perturbed = None /\ reps_perturbed = None
        /\ prediction_changed = None /\ changed_prediction_indices = None
        /\ explain_func = None /\ a_batch_supplied = None
        /\ x_batch = None /\ perturb_arr = None /\ perturb_indices = None
        /\ x_perturbed = None /\ previous_scores = None
        /\ calls = None /\ rrs_nominator = None /\ rrs_denominator = None
        /\ dataset_results = None /\ evaluated = None /\ evaluation_scores = None

\* Sufficiency.custom_batch_preprocess / BatchSufficiency.custom_batch_preprocess
custom_batch_preprocess ==
    /\ metric \in {"Sufficiency", "BatchSufficiency"}
    /\ pc = "preprocess"
    /\ a_sim_vector_batch' = Thresholded(dist_matrix, threshold, batch_size)
    /\ pc' = "evaluate"
    /\ UNCHANGED <<callerVars, perturbVars, previous_scores,
                   calls, objectiveVars, engineVars,
                   metric, batch_size, dist_matrix, threshold, sim_in,
                   y_pred_classes, low_dist_freqs, same_class_freqs, divisor,
                   scores, error, configVars, batchVars, sampleVars>>

\* Body shared by the two evaluate_batch methods (the code is the same).
\* The method may be called a second time with the objects of the first
\* call: the similarity matrix is then the one the first call left behind.
SufficiencyEvaluate ==
    LET n    == batch_size
        sim  == RemoveSelfLoops(a_sim_vector_batch, n)
        eq   == PredClassesEquality(y_pred_classes, n)
        low  == RowSum(sim, n)
        same == RowSum(Hadamard(eq, sim, n), n)
        dv   == Divisor(low, n)
    IN  /\ pc \in {"evaluate", "done"}
        /\ sim_in' = IF pc = "evaluate" THEN a_sim_vector_batch ELSE sim_in
        /\ a_sim_vector_batch' = sim
        /\ low_dist_freqs' = low
        /\ same_class_freqs' = same
        /\ divisor' = dv
        /\ scores' = [i \in Instances(n) |-> Div(Num(same[i]), dv[i])]
        /\ previous_scores' = scores
        /\ pc' = IF pc = "evaluate" THEN "done" ELSE "done_again"
        /\ UNCHANGED <<callerVars, perturbVars,
                       calls, objectiveVars, engineVars,
                       metric, batch_size, dist_matrix, threshold, y_pred_classes,
                       error, configVars, batchVars, sampleVars>>

Sufficiency_evaluate_batch ==
    /\ metric = "Sufficiency"
    /\ SufficiencyEvaluate

BatchSufficiency_evaluate_batch ==
    /\ metric = "BatchSufficiency"
    /\ SufficiencyEvaluate

NextSufficiency ==
    \/ custom_batch_preprocess
    \/ Sufficiency_evaluate_batch
    \/ BatchSufficiency_evaluate_batch

SpecSufficiency == InitSufficiency /\ [][NextSufficiency]_vars

\* ------------------------------------------- shared by the robustness metrics
\* Raised by numpy for a maximum over an empty axis.
EmptyMaxError == "ValueError: zero-size array to reduction operation maximum which has no identity"

AttrValues == 0..MaxAttr
Samples(k) == 1..k

\* Mutant of RangeHasNext: the body of the loop runs at least once.
RangeHasNext_atLeastOnce(step, k) == step < k \/ step = 0

\* for step_id in range(nr_samples): there is a next sample after step
\* iterations.
RangeHasNext(step, k) == step < k

Abs(v) == IF v < 0 THEN -v ELSE v

\* The closure built by make_changed_prediction_indices_func: with masking
\* enabled the indices of the instances whose predicted class changed, with
\* masking disabled no index at all.
ChangedPredictionIndices(masking, changed) == IF masking THEN changed ELSE {}

\* Mutant of MaxPair: the smaller of the two values.
MaxPair_min(x, y) ==
    IF IsNaN(x) \/ IsNaN(y) THEN NaN ELSE IF Leq(x, y) THEN x ELSE y

\* np.maximum of two floats: NaN if either is NaN.
MaxPair(x, y) ==
    IF IsNaN(x) \/ IsNaN(y) THEN NaN ELSE IF Leq(x, y) THEN y ELSE x

\* Mutant of NanMaxPair: a NaN is propagated, as by np.maximum.
NanMaxPair_propagating(x, y) ==
    IF IsNaN(x) \/ IsNaN(y) THEN NaN ELSE IF Leq(x, y) THEN y ELSE x

\* np.fmax of two floats: a NaN is skipped.
NanMaxPair(x, y) ==
    IF IsNaN(x) THEN y ELSE IF IsNaN(y) THEN x ELSE IF Leq(x, y) THEN y ELSE x

RECURSIVE NpMax(_, _)
\* np.max over v[1..k], k >= 1.
NpMax(v, k) == IF k = 1 THEN v[1] ELSE MaxPair(NpMax(v, k - 1), v[k])

RECURSIVE NpNanMax(_, _)
\* np.nanmax over v[1..k], k >= 1 (NaN when every entry is NaN).
NpNanMax(v, k) == IF k = 1 THEN v[1] ELSE NanMaxPair(NpNanMax(v, k - 1), v[k])

\* Mutant of ApplyMaxFunc: np.nanmax whatever the configuration.
ApplyMaxFunc_alwaysNanMax(f, v, k) == NpNanMax(v, k)

\* self.max_func(v[1..k])
ApplyMaxFunc(f, v, k) == IF f = "np.max" THEN NpMax(v, k) ELSE NpNanMax(v, k)

\* ----------------------------------------------------------- MaxSensitivity
\* similarity_func = difference: a - b, elementwise.
Difference(a, b, n) == [i \in Instances(n) |-> a[i] - b[i]]

\* norm_func.fro_norm per instance; one feature per instance, so |a[i]|.
FroNorm(a, n) == [i \in Instances(n) |-> Abs(a[i])]

\* Mutant of NormalisedSimilarity: denominator / numerator.
NormalisedSimilarity_inverted(numerator, denominator, n) ==
    [i \in Instances(n) |-> Div(Num(denominator[i]), Num(numerator[i]))]

\* Mutant of NormalisedSimilarity: a zero denominator is replaced by +inf.
NormalisedSimilarity_guarded(numerator, denominator, n) ==
    [i \in Instances(n) |->
        Div(Num(numerator[i]),
            IF denominator[i] = 0 THEN Inf ELSE Num(denominator[i]))]

\* numerator / denominator, elementwise over the instances.
NormalisedSimilarity(numerator, denominator, n) ==
    [i \in Instances(n) |-> Div(Num(numerator[i]), Num(denominator[i]))]

\* Mutant of SetColumn: similarities[:, :] = column, every sample.
SetColumn_everySample(m, s, column, n) ==
    [i \in Instances(n) |-> [t \in DOMAIN m[i] |-> column[i]]]

\* similarities[:, step_id] = column
SetColumn(m, s, column, n) ==
    [i \in Instances(n) |-> [m[i] EXCEPT ![s] = column[i]]]

\* similarities[indices, step_id] = np.nan
SetColumnNaN(m, s, indices, n) ==
    [i \in Instances(n) |-> IF i \in indices THEN [m[i] EXCEPT ![s] = NaN] ELSE m[i]]

\* Mutant of StoreSimilarities: the NaN marks are written first and the
\* numeric values over them.
StoreSimilarities_marksFirst(m, s, column, indices, n) ==
    SetColumn(SetColumnNaN(m, s, indices, n), s, column, n)

\* The two writes that end an iteration, in the order of the code.
StoreSimilarities(m, s, column, indices, n) ==
    SetColumnNaN(SetColumn(m, s, column, n), s, indices, n)

\* Mutant of MaxOverSamples: self.max_func(similarities, axis=0), one value
\* per sample.
MaxOverSamples_axis0(f, m, n, k) ==
    [s \in Samples(k) |-> ApplyMaxFunc(f, [i \in Instances(n) |-> m[i][s]], n)]

\* self.max_func(similarities, axis=1)
MaxOverSamples(f, m, n, k) ==
    [i \in Instances(n) |-> ApplyMaxFunc(f, m[i], k)]

\* An explanation function that was given.
Callable == "callable"

\* Raised by assert_explain_func for an explain_func that is not callable.
ExplainFuncError == "AssertionError: explain_func must be given and be callable"

InitMaxSensitivity ==
    /\ metric = "MaxSensitivity"
    /\ pc = "new"
    /\ nr_samples \in 0..MaxSamples
    /\ return_nan \in BOOLEAN
    /\ max_func = None
    /\ return_aggregate = None /\ layer_names = None /\ layer_indices = None
    /\ batch_size = None
    /\ scores = <<>>
    /\ error = None
    /\ dist_matrix = None /\ threshold = None /\ a_sim_vector_batch = None
    /\ sim_in = None /\ y_pred_classes = None /\ low_dist_freqs = None
    /\ same_class_freqs = None /\ divisor = None
    /\ a_batch = None /\ a_ndim = None /\ internal_representations = None
    /\ step_id = None /\ similarities = None /\ rrs_batch = None
    /\ a_perturbed = None /\ reps_perturbed = None
    /\ prediction_changed = None /\ changed_prediction_indices = None
    /\ explain_func \in {None, Callable}
    /\ a_batch_supplied \in BOOLEAN
    /\ x_batch = None /\ perturb_arr = None /\ perturb_indices = None
    /\ x_perturbed = None /\ previous_scores = None
    /\ calls = <<>> /\ rrs_nominator = None /\ rrs_denominator = None
    /\ dataset_results = None /\ evaluated = None /\ evaluation_scores = None

\* MaxSensitivity.__init__: the reduction is chosen from the masking flag.
MaxSensitivity_init ==
    /\ metric = "MaxSensitivity"
    /\ pc = "new"
    /\ max_func' = IF return_nan THEN "np.max" ELSE "np.nanmax"
    /\ pc' = "constructed"
    /\ UNCHANGED <<callerVars, perturbVars, previous_scores,
                   calls, objectiveVars, engineVars,
                   metric, batch_size, scores, error, sufficiencyVars,
                   nr_samples, return_nan, return_aggregate, layer_names,
                   layer_indices, batchVars, sampleVars>>

\* The engine's preparation of a call: an explanation function is required
\* when no precomputed attribution was supplied (the attribution is then
\* generated with it); custom_preprocess follows.
general_preprocess ==
    /\ metric = "MaxSensitivity"
    /\ pc = "constructed"
    /\ IF ~a_batch_supplied /\ explain_func = None
       THEN pc' = "error" /\ error' = ExplainFuncError
       ELSE pc' = "custom_preprocess" /\ UNCHANGED error
    /\ UNCHANGED <<callerVars, perturbVars, previous_scores, calls,
                   objectiveVars, engineVars, metric, batch_size, scores,
                   sufficiencyVars, configVars, batchVars, sampleVars>>

\* Mutant of CustomPreprocessRaises: the additional assert is left out.
CustomPreprocessRaises_never(func) == FALSE

\* asserts.assert_explain_func(explain_func=self.explain_func) raises.
CustomPreprocessRaises(func) == func = None

\* MaxSensitivity.custom_preprocess: the explanation function is asserted,
\* whether or not a_batch was supplied.
MaxSensitivity_custom_preprocess ==
    /\ metric = "MaxSensitivity"
    /\ pc = "custom_preprocess"
    /\ calls' = Append(calls, "assert_explain_func")
    /\ IF CustomPreprocessRaises(explain_func)
       THEN pc' = "error" /\ error' = ExplainFuncError
       ELSE pc' = "preprocessed" /\ UNCHANGED error
    /\ UNCHANGED <<callerVars, perturbVars, previous_scores,
                   objectiveVars, engineVars, metric, batch_size, scores,
                   sufficiencyVars, configVars, batchVars, sampleVars>>

\* Mutant of MaxSensitivitySampleCalls: the perturbed batch is explained
\* before the changed predictions are detected.
MaxSensitivitySampleCalls_explainFirst ==
    <<"perturb_func", "explain_batch", "changed_prediction_indices_func",
      "similarity_func", "norm_numerator", "norm_denominator">>

\* The calls one iteration of the loop of MaxSensitivity.evaluate_batch makes,
\* in the order of the code.
MaxSensitivitySampleCalls ==
    <<"perturb_func", "changed_prediction_indices_func", "explain_batch",
      "similarity_func", "norm_numerator", "norm_denominator">>

\* MaxSensitivity.evaluate_batch, up to the loop: the results array is
\* allocated, every entry NaN.
MaxSensitivity_evaluate_batch_begin ==
    /\ metric = "MaxSensitivity"
    /\ pc = "preprocessed"
    /\ \E n \in 1..MaxRobustBatch : \E a \in [Instances(n) -> AttrValues] :
           /\ n * nr_samples <= MaxSimCells
           /\ batch_size' = n
           /\ a_batch' = a
           /\ similarities' =
                  [i \in Instances(n) |-> [s \in Samples(nr_samples) |-> NaN]]
    /\ step_id' = 0
    /\ a_perturbed' = <<>>
    /\ prediction_changed' = <<>>
    /\ changed_prediction_indices' = {}
    /\ pc' = "loop"
    /\ UNCHANGED <<callerVars, perturbVars, previous_scores,
                   calls, objectiveVars, engineVars,
                   metric, scores, error, sufficiencyVars, configVars, a_ndim,
                   internal_representations, rrs_batch, reps_perturbed>>

\* One iteration of the loop of MaxSensitivity.evaluate_batch: perturb, detect
\* changed predictions, explain the perturbed batch, store the value of the
\* sample, mark NaN.  The perturbed explanation and the set of instances
\* whose prediction changed come from the collaborators.
MaxSensitivity_evaluate_batch_sample ==
    /\ metric = "MaxSensitivity"
    /\ pc = "loop"
    /\ RangeHasNext(step_id, nr_samples)
    /\ \E ap \in [Instances(batch_size) -> AttrValues],
          changed \in SUBSET Instances(batch_size) :
           LET n             == batch_size
               s             == step_id + 1
               indices       == ChangedPredictionIndices(return_nan, changed)
               sensitivities == Difference(a_batch, ap, n)
               numerator     == FroNorm(sensitivities, n)
               denominator   == FroNorm(a_batch, n)
               column        == NormalisedSimilarity(numerator, denominator, n)
           IN  /\ changed_prediction_indices' = indices
               /\ a_perturbed' = Append(a_perturbed, ap)
               /\ prediction_changed' = Append(prediction_changed, changed)
               /\ similarities' = StoreSimilarities(similarities, s, column, indices, n)
    /\ step_id' = step_id + 1
    /\ calls' = calls \o MaxSensitivitySampleCalls
    /\ UNCHANGED <<callerVars, perturbVars, previous_scores,
                   objectiveVars, engineVars,
                   metric, pc, batch_size, scores, error, sufficiencyVars,
                   configVars, batchVars, rrs_batch, reps_perturbed>>

\* The return statement of MaxSensitivity.evaluate_batch.  The maximum over an
\* empty sample axis raises ValueError.
MaxSensitivity_evaluate_batch_return ==
    /\ metric = "MaxSensitivity"
    /\ pc = "loop"
    /\ step_id = nr_samples
    /\ IF nr_samples = 0
       THEN /\ pc' = "error"
            /\ error' = EmptyMaxError
            /\ UNCHANGED scores
       ELSE /\ pc' = "done"
            /\ scores' = MaxOverSamples(max_func, similarities, batch_size,
                                        nr_samples)
            /\ UNCHANGED error
    /\ UNCHANGED <<callerVars, perturbVars, previous_scores,
                   calls, objectiveVars, engineVars,
                   metric, batch_size, sufficiencyVars, configVars, batchVars,
                   sampleVars>>

NextMaxSensitivity ==
    \/ MaxSensitivity_init
    \/ general_preprocess
    \/ MaxSensitivity_custom_preprocess
    \/ MaxSensitivity_evaluate_batch_begin
    \/ MaxSensitivity_evaluate_batch_sample
    \/ MaxSensitivity_evaluate_batch_return

SpecMaxSensitivity == InitMaxSensitivity /\ [][NextMaxSensitivity]_vars

\* ------------------------------------------ RelativeRepresentationStability
RepValues == {0, MaxRep}
RRSAttrValues == {0, MaxAttr}
Ranks == 1..MaxRank
\* A constructor argument that was given (a non-empty list).
Given == "given"

\* self._eps_min
EpsMin == <<1, EpsMinInv>>

\* x + y of two non-negative floats.
Add(x, y) ==
    IF IsNaN(x) \/ IsNaN(y) THEN NaN
    ELSE IF ~IsFinite(x) \/ ~IsFinite(y) THEN Inf
    ELSE Reduce(x[1] * y[2] + y[1] * x[2], x[2] * y[2])

\* Mutant of ZeroGuarded: the original value as it is.
ZeroGuarded_unguarded(v) == Num(v)

\* v + (v == 0) * eps_min, for an element v >= 0 of the original array.
ZeroGuarded(v) == IF v = 0 THEN EpsMin ELSE Num(v)

\* norm_function(nominator), np.linalg.norm(denominator, axis=-1): one element
\* per instance, so the absolute value of the relative change.
RelativeChangeNorm(orig, pert) == Div(Num(Abs(orig - pert)), ZeroGuarded(orig))

\* denominator += (denominator == 0) * eps_min
FlooredAtZero(d) == IF d = Num(0) THEN EpsMin ELSE d

\* nominator = norm_function((e_x - e_xs) / (e_x + (e_x == 0) * eps_min))
Nominator(e_x, e_xs, n) ==
    [i \in Instances(n) |-> RelativeChangeNorm(e_x[i], e_xs[i])]

\* denominator, when the objective returns: the norm of the relative change
\* of the representation, eps_min added where it is exactly zero.
Denominator(l_x, l_xs, n) ==
    [i \in Instances(n) |-> FlooredAtZero(RelativeChangeNorm(l_x[i], l_xs[i]))]

\* relative_representation_stability_objective for a supported rank.
Objective(l_x, l_xs, e_x, e_xs, n) ==
    [i \in Instances(n) |->
        Div(Nominator(e_x, e_xs, n)[i], Denominator(l_x, l_xs, n)[i])]

\* Mutant of SupportedRank: only the upper end is tested.
SupportedRank_upTo4(num_dim) == num_dim <= 4

\* The ranks for which a norm function is selected.
SupportedRank(num_dim) == num_dim \in {2, 3, 4}

\* rrs_batch[index] = rrs
SetRow(m, s, row) == [m EXCEPT ![s] = row]

\* Mutant of SetRowNaN: rrs_batch[index] = np.nan, the whole sample.
SetRowNaN_wholeRow(m, s, indices, n) ==
    [m EXCEPT ![s] = [i \in Instances(n) |-> NaN]]

\* rrs_batch[index, indices] = np.nan
SetRowNaN(m, s, indices, n) ==
    [m EXCEPT ![s] = [i \in Instances(n) |-> IF i \in indices THEN NaN ELSE m[s][i]]]

\* Mutant of StoreObjective: the NaN write is left out.
StoreObjective_unmarked(m, s, row, indices, n) == SetRow(m, s, row)

\* The writes that end an iteration of the loop, in the order of the code.
StoreObjective(m, s, row, indices, n) ==
    LET stored == SetRow(m, s, row)
    IN  IF Cardinality(indices) # 0 THEN SetRowNaN(stored, s, indices, n) ELSE stored

RECURSIVE SumValues(_, _)
SumValues(v, k) == IF k = 0 THEN Num(0) ELSE Add(SumValues(v, k - 1), v[k])

\* self.aggregate_func: the mean of the scores.
Aggregate(v, n) == Div(SumValues(v, n), Num(n))

\* What evaluate_batch returns for the per-instance maxima of a batch:
\* if self.return_aggregate: result = [self.aggregate_func(result)]
BatchReturn(aggregate, result, n) ==
    IF aggregate THEN <<Aggregate(result, n)>> ELSE result

\* Column i of rrs_batch as a vector over the samples.
SampleAxis(m, i, k) == [s \in Samples(k) |-> m[s][i]]

InitRRS ==
    /\ metric = "RelativeRepresentationStability"
    /\ pc = "new"
    /\ nr_samples \in 0..MaxSamples
    /\ return_nan \in BOOLEAN
    /\ return_aggregate \in BOOLEAN
    /\ layer_names \in {None, Given}
    /\ layer_indices \in {None, Given}
    /\ max_func = None
    /\ batch_size = None
    /\ scores = <<>>
    /\ error = None
    /\ dist_matrix = None /\ threshold = None /\ a_sim_vector_batch = None
    /\ sim_in = None /\ y_pred_classes = None /\ low_dist_freqs = None
    /\ same_class_freqs = None /\ divisor = None
    /\ a_batch = None /\ a_ndim = None /\ internal_representations = None
    /\ step_id = None /\ similarities = None /\ rrs_batch = None
    /\ a_perturbed = None /\ reps_perturbed = None
    /\ prediction_changed = None /\ changed_prediction_indices = None
    /\ explain_func = None /\ a_batch_supplied = None
    /\ x_batch = None /\ perturb_arr = None /\ perturb_indices = None
    /\ x_perturbed = None /\ previous_scores = None
    /\ calls = <<>> /\ rrs_nominator = None /\ rrs_denominator = None
    /\ dataset_results = None /\ evaluated = None /\ evaluation_scores = None

\* Mutant of ConflictingLayers: "or" in place of "and".
ConflictingLayers_either(names, indices) == names # None \/ indices # None

\* The exceptions that end a call.
LayersError == "ValueError: Must provide either layer_names OR layer_indices, not both."
RankError == "ValueError: Relative Input Stability only supports 4D, 3D and 2D inputs (batch dimension inclusive)."

\* if layer_names is not None and layer_indices is not None
ConflictingLayers(names, indices) == names # None /\ indices # None

\* RelativeRepresentationStability.__init__: both layer selectors given raises
\* ValueError, otherwise the instance is constructed.
RRS_init ==
    /\ metric = "RelativeRepresentationStability"
    /\ pc = "new"
    /\ IF ConflictingLayers(layer_names, layer_indices)
       THEN pc' = "error" /\ error' = LayersError
       ELSE pc' = "constructed" /\ UNCHANGED error
    /\ UNCHANGED <<callerVars, perturbVars, previous_scores,
                   calls, objectiveVars, engineVars,
                   metric, batch_size, scores, sufficiencyVars, configVars,
                   batchVars, sampleVars>>

\* Mutant of SampleCalls: the perturbed representations are fetched before
\* the perturbed batch is explained.
SampleCalls_fetchFirst ==
    <<"perturb_func", "get_hidden_representations", "explain_batch",
      "relative_representation_stability_objective">>

\* The calls one iteration of the loop makes up to and including the
\* objective, in the order of the code.
SampleCalls ==
    <<"perturb_func", "explain_batch", "get_hidden_representations",
      "relative_representation_stability_objective">>

\* RelativeRepresentationStability.evaluate_batch, up to the loop: the
\* representations of the original batch are fetched and rrs_batch is
\* allocated, every entry 0.
RRS_evaluate_batch_begin ==
    /\ metric = "RelativeRepresentationStability"
    /\ pc = "constructed"
    /\ \E n \in 1..MaxRobustBatch :
       \E a \in [Instances(n) -> RRSAttrValues], l \in [Instances(n) -> RepValues],
          r \in Ranks :
           /\ n * (nr_samples + 1) <= MaxFetchedRows
           /\ batch_size' = n
           /\ a_batch' = a
           /\ a_ndim' = r
           /\ internal_representations' = l
           /\ rrs_batch' =
                  [s \in Samples(nr_samples) |-> [i \in Instances(n) |-> Num(0)]]
    /\ step_id' = 0
    /\ a_perturbed' = <<>>
    /\ reps_perturbed' = <<>>
    /\ prediction_changed' = <<>>
    /\ changed_prediction_indices' = {}
    /\ calls' = Append(calls, "get_hidden_representations")
    /\ pc' = "loop"
    /\ UNCHANGED <<callerVars, perturbVars, previous_scores,
                   objectiveVars, engineVars,
                   metric, scores, error, sufficiencyVars, configVars,
                   similarities>>

\* One iteration of the loop of RelativeRepresentationStability.evaluate_batch:
\* perturb, explain the perturbed batch, fetch its representations, compute and
\* store the objective, detect changed predictions, mark NaN.  An unsupported
\* rank of a_batch raises ValueError in the objective.
RRS_evaluate_batch_sample ==
    /\ metric = "RelativeRepresentationStability"
    /\ pc = "loop"
    /\ RangeHasNext(step_id, nr_samples)
    /\ \E ap \in [Instances(batch_size) -> RRSAttrValues],
          lp \in [Instances(batch_size) -> RepValues],
          changed \in SUBSET Instances(batch_size) :
           LET n == batch_size
               s == step_id + 1
           IN  /\ a_perturbed' = Append(a_perturbed, ap)
               /\ reps_perturbed' = Append(reps_perturbed, lp)
               /\ IF SupportedRank(a_ndim)
                  THEN LET rrs == Objective(internal_representations, lp,
                                            a_batch, ap, n)
                           indices == ChangedPredictionIndices(return_nan, changed)
                       IN  /\ rrs_nominator' = Nominator(a_batch, ap, n)
                           /\ rrs_denominator' = Denominator(internal_representations, lp, n)
                           /\ rrs_batch' = StoreObjective(rrs_batch, s, rrs, indices, n)
                           /\ prediction_changed' = Append(prediction_changed, changed)
                           /\ changed_prediction_indices' = indices
                           /\ step_id' = step_id + 1
                           /\ calls' = calls \o SampleCalls
                                            \o <<"changed_prediction_indices_func">>
                           /\ UNCHANGED <<pc, error>>
                  ELSE /\ pc' = "error"
                       /\ error' = RankError
                       /\ calls' = calls \o SampleCalls
                       /\ UNCHANGED <<rrs_batch, prediction_changed, objectiveVars,
                                      changed_prediction_indices, step_id>>
    /\ UNCHANGED <<callerVars, perturbVars, previous_scores,
                   engineVars,
                   metric, batch_size, scores, sufficiencyVars, configVars,
                   batchVars, similarities>>

\* The end of RelativeRepresentationStability.evaluate_batch: np.max over the
\* sample axis (ValueError when it is empty), then the aggregation if
\* return_aggregate is set.
RRS_evaluate_batch_return ==
    /\ metric = "RelativeRepresentationStability"
    /\ pc = "loop"
    /\ step_id = nr_samples
    /\ IF nr_samples = 0
       THEN /\ pc' = "error"
            /\ error' = EmptyMaxError
            /\ UNCHANGED scores
       ELSE LET n == batch_size
                result == [i \in Instances(n) |->
                              NpMax(SampleAxis(rrs_batch, i, nr_samples), nr_samples)]
            IN  /\ pc' = "done"
                /\ scores' = BatchReturn(return_aggregate, result, n)
                /\ UNCHANGED error
    /\ UNCHANGED <<callerVars, perturbVars, previous_scores,
                   calls, objectiveVars, engineVars,
                   metric, batch_size, sufficiencyVars, configVars, batchVars,
                   sampleVars>>

NextRRS ==
    \/ RRS_init
    \/ RRS_evaluate_batch_begin
    \/ RRS_evaluate_batch_sample
    \/ RRS_evaluate_batch_return

SpecRRS == InitRRS /\ [][NextRRS]_vars

\* ------------------------------ the objective as a function of its arguments
\* Representations fine enough for a relative change below eps_min:
\* (FineRep - (FineRep - 1)) / FineRep = eps_min / 2.
FineRep == 2 * EpsMinInv
ObjectiveRepValues == {0, MaxRep, FineRep - 1, FineRep}

\* The arguments of one call of the objective: l_x, l_xs, e_x, e_xs of the same
\* batch, and the rank of e_x.
InitObjective ==
    \E n \in 1..MaxRobustBatch :
    \E l_x \in [Instances(n) -> ObjectiveRepValues],
       l_xs \in [Instances(n) -> ObjectiveRepValues],
       e_x \in [Instances(n) -> RRSAttrValues],
       e_xs \in [Instances(n) -> RRSAttrValues] :
        /\ 2 * n <= MaxFetchedRows
        /\ metric = "RelativeRepresentationStability"
        /\ pc = "objective"
        /\ batch_size = n
        /\ internal_representations = l_x
        /\ reps_perturbed = <<l_xs>>
        /\ a_batch = e_x
        /\ a_perturbed = <<e_xs>>
        /\ a_ndim \in Ranks
        /\ scores = <<>>
        /\ error = None
        /\ rrs_nominator = None /\ rrs_denominator = None
        /\ nr_samples = None /\ return_nan = None /\ max_func = None
        /\ return_aggregate = None /\ layer_names = None /\ layer_indices = None
        /\ dist_matrix = None /\ threshold = None /\ a_sim_vector_batch = None
        /\ sim_in = None /\ y_pred_classes = None /\ low_dist_freqs = None
        /\ same_class_freqs = None /\ divisor = None
        /\ step_id = None /\ similarities = None /\ rrs_batch = None
        /\ prediction_changed = None /\ changed_prediction_indices = None
        /\ explain_func = None /\ a_batch_supplied = None
        /\ x_batch = None /\ perturb_arr = None /\ perturb_indices = None
        /\ x_perturbed = None /\ previous_scores = None
        /\ calls = None
        /\ dataset_results = None /\ evaluated = None /\ evaluation_scores = None

\* RelativeRepresentationStability.relative_representation_stability_objective
relative_representation_stability_objective ==
    /\ metric = "RelativeRepresentationStability"
    /\ pc = "objective"
    /\ IF SupportedRank(a_ndim)
       THEN /\ rrs_nominator' = Nominator(a_batch, a_perturbed[1], batch_size)
            /\ rrs_denominator' =
                   Denominator(internal_representations, reps_perturbed[1], batch_size)
            /\ scores' = Objective(internal_representations, reps_perturbed[1],
                                   a_batch, a_perturbed[1], batch_size)
            /\ pc' = "returned"
            /\ UNCHANGED error
       ELSE /\ pc' = "error"
            /\ error' = RankError
            /\ UNCHANGED <<scores, objectiveVars>>
    /\ UNCHANGED <<callerVars, perturbVars, previous_scores,
                   calls, engineVars, metric, batch_size, sufficiencyVars,
                   configVars, batchVars, sampleVars>>

NextObjective == relative_representation_stability_objective

SpecObjective == InitObjective /\ [][NextObjective]_vars

\* --------------------------------- the engine around evaluate_batch (RRS)
ResultValues == {Num(k) : k \in 0..MaxResult}

Min(a, b) == IF a <= b THEN a ELSE b

\* One call of the metric on a dataset: the per-instance maxima evaluate_batch
\* computes at its line 350 are given, and the batch size of the call.
InitEngine ==
    \E size \in 1..MaxDataset :
        /\ metric = "RelativeRepresentationStability"
        /\ pc = "engine"
        /\ batch_size \in 1..MaxEngineBatch
        /\ return_aggregate \in BOOLEAN
        /\ dataset_results \in [1..size -> ResultValues]
        /\ evaluated = 0
        /\ evaluation_scores = <<>>
        /\ scores = <<>>
        /\ error = None
        /\ nr_samples = None /\ return_nan = None /\ max_func = None
        /\ layer_names = None /\ layer_indices = None
        /\ dist_matrix = None /\ threshold = None /\ a_sim_vector_batch = None
        /\ sim_in = None /\ y_pred_classes = None /\ low_dist_freqs = None
        /\ same_class_freqs = None /\ divisor = None
        /\ a_batch = None /\ a_ndim = None /\ internal_representations = None
        /\ step_id = None /\ similarities = None /\ rrs_batch = None
        /\ a_perturbed = None /\ reps_perturbed = None
        /\ prediction_changed = None /\ changed_prediction_indices = None
        /\ explain_func = None /\ a_batch_supplied = None
        /\ x_batch = None /\ perturb_arr = None /\ perturb_indices = None
        /\ x_perturbed = None /\ previous_scores = None
        /\ calls = None /\ rrs_nominator = None /\ rrs_denominator = None

\* One iteration of the engine's loop over the batches: the next batch, in
\* dataset order, is handed to evaluate_batch and what it returns is appended
\* to the evaluation scores.
Metric_call_batch ==
    /\ metric = "RelativeRepresentationStability"
    /\ pc = "engine"
    /\ evaluated < Len(dataset_results)
    /\ LET n      == Min(batch_size, Len(dataset_results) - evaluated)
           result == [i \in Instances(n) |-> dataset_results[evaluated + i]]
       IN  /\ scores' = BatchReturn(return_aggregate, result, n)
           /\ evaluation_scores' = evaluation_scores \o scores'
           /\ evaluated' = evaluated + n
    /\ UNCHANGED <<callerVars, perturbVars, previous_scores,
                   calls, objectiveVars, dataset_results, metric, pc, batch_size,
                   error, sufficiencyVars, configVars, batchVars, sampleVars>>

\* The end of the engine's call: with aggregation configured the evaluation
\* scores are reduced by the aggregation function.
Metric_call_aggregate ==
    /\ metric = "RelativeRepresentationStability"
    /\ pc = "engine"
    /\ evaluated = Len(dataset_results)
    /\ evaluation_scores' =
           IF return_aggregate
           THEN <<Aggregate(evaluation_scores, Len(evaluation_scores))>>
           ELSE evaluation_scores
    /\ pc' = "call_done"
    /\ UNCHANGED <<callerVars, perturbVars, previous_scores,
                   calls, objectiveVars, dataset_results, evaluated, metric,
                   batch_size, scores, error, sufficiencyVars, configVars,
                   batchVars, sampleVars>>

NextEngine ==
    \/ Metric_call_batch
    \/ Metric_call_aggregate

SpecEngine == InitEngine /\ [][NextEngine]_vars

\* ------------------------------------------- the arguments of perturb_func
\* An array is a record of its shape and its entries in row-major order.
RECURSIVE Product(_)
Product(shape) == IF shape = <<>> THEN 1 ELSE Head(shape) * Product(Tail(shape))

InputValues == {0, 1}

\* The input batches: shape (batch_size, d1, d2).
InputShapes ==
    {shape \in (1..MaxRobustBatch) \X (1..MaxFeatureDim) \X (1..MaxFeatureDim) :
        Product(shape) <= MaxPerturbCells}

InputBatches ==
    UNION {[shape : {shape}, data : [1..Product(shape) -> InputValues]] :
              shape \in InputShapes}

\* arr.reshape(rows, -1): the entries in the same order, the second dimension
\* inferred.
ReshapeRows(arr, rows) ==
    [shape |-> <<rows, Len(arr.data) \div rows>>, data |-> arr.data]

\* arr.reshape(*shape)
Reshape(arr, shape) == [shape |-> shape, data |-> arr.data]

\* x_batch[0].size
InstanceSize(x) == Product(Tail(x.shape))

\* Mutant of Arange: np.arange(1, k + 1).
Arange_fromOne(k) == [j \in 1..k |-> j]

\* np.arange(0, k)
Arange(k) == [j \in 1..k |-> j - 1]

\* np.tile(row, (rows, 1))
Tile(row, rows) == [i \in 1..rows |-> row]

InitPerturb ==
    /\ metric \in {"MaxSensitivity", "RelativeRepresentationStability"}
    /\ pc = "perturb"
    /\ x_batch \in InputBatches
    /\ batch_size = x_batch.shape[1]
    /\ perturb_arr = None /\ perturb_indices = None /\ x_perturbed = None
    /\ scores = <<>>
    /\ error = None
    /\ nr_samples = None /\ return_nan = None /\ max_func = None
    /\ return_aggregate = None /\ layer_names = None /\ layer_indices = None
    /\ dist_matrix = None /\ threshold = None /\ a_sim_vector_batch = None
    /\ sim_in = None /\ y_pred_classes = None /\ low_dist_freqs = None
    /\ same_class_freqs = None /\ divisor = None
    /\ a_batch = None /\ a_ndim = None /\ internal_representations = None
    /\ step_id = None /\ similarities = None /\ rrs_batch = None
    /\ a_perturbed = None /\ reps_perturbed = None
    /\ prediction_changed = None /\ changed_prediction_indices = None
    /\ explain_func = None /\ a_batch_supplied = None
    /\ previous_scores = None
    /\ calls = None /\ rrs_nominator = None /\ rrs_denominator = None
    /\ dataset_results = None /\ evaluated = None /\ evaluation_scores = None

\* The perturbation step of one loop iteration (the code is the same in both
\* metrics): the batch is flattened per instance, every instance gets the
\* indices of all its features, perturb_func returns an array of the shape
\* of arr, and the result is given the shape of x_batch.
Perturb ==
    /\ pc = "perturb"
    /\ LET arr == ReshapeRows(x_batch, batch_size)
       IN  /\ perturb_arr' = arr
           /\ perturb_indices' = Tile(Arange(InstanceSize(x_batch)), batch_size)
           /\ \E returned \in [shape : {arr.shape},
                                 data : [DOMAIN arr.data -> InputValues]] :
                  x_perturbed' = Reshape(returned, x_batch.shape)
    /\ pc' = "perturbed"
    /\ UNCHANGED <<callerVars, x_batch, previous_scores, calls, objectiveVars,
                   engineVars, metric, batch_size, scores, error,
                   sufficiencyVars, configVars, batchVars, sampleVars>>

MaxSensitivity_perturb ==
    /\ metric = "MaxSensitivity"
    /\ Perturb

RRS_perturb ==
    /\ metric = "RelativeRepresentationStability"
    /\ Perturb

NextPerturb ==
    \/ MaxSensitivity_perturb
    \/ RRS_perturb

SpecPerturb == InitPerturb /\ [][NextPerturb]_vars

\* ------------------------------------------------------------- all metrics
Init == InitSufficiency \/ InitMaxSensitivity \/ InitRRS

Next ==
    \/ custom_batch_preprocess
    \/ Sufficiency_evaluate_batch
    \/ BatchSufficiency_evaluate_batch
    \/ MaxSensitivity_init
    \/ general_preprocess
    \/ MaxSensitivity_custom_preprocess
    \/ MaxSensitivity_evaluate_batch_begin
    \/ MaxSensitivity_evaluate_batch_sample
    \/ MaxSensitivity_evaluate_batch_return
    \/ RRS_init
    \/ RRS_evaluate_batch_begin
    \/ RRS_evaluate_batch_sample
    \/ RRS_evaluate_batch_return

Spec == Init /\ [][Next]_vars

\* ------------------------------------------------- Sufficiency: properties
IsSufficiency == metric \in {"Sufficiency", "BatchSufficiency"}

\* The other instances connected to i in the matrix evaluate_batch received.
ConnectedOthers(i) ==
    {j \in Instances(batch_size) : j # i /\ sim_in[i][j] = 1}

\* Those of them with the predicted class of i.
SameClassOthers(i) ==
    {j \in ConnectedOthers(i) : y_pred_classes[j] = y_pred_classes[i]}

SufficiencyDone == IsSufficiency /\ pc = "done"

\* C1: after evaluate_batch, the score of every instance i with at least one
\* connected other instance is the fraction
\* |{j # i connected, same class}| / |{j # i connected}|.
C1_ScoreIsRatio ==
    SufficiencyDone =>
        \A i \in Instances(batch_size) :
            Cardinality(ConnectedOthers(i)) # 0 =>
                /\ IsFinite(scores[i])
                /\ scores[i][1] * Cardinality(ConnectedOthers(i))
                       = Cardinality(SameClassOthers(i)) * scores[i][2]

\* C1 witness: an instance with a self-loop in the received matrix, two
\* connected others and exactly one of them of its class has been scored.
C1_Witness ==
    /\ SufficiencyDone
    /\ \E i \in Instances(batch_size) :
           /\ sim_in[i][i] = 1
           /\ Cardinality(ConnectedOthers(i)) = 2
           /\ Cardinality(SameClassOthers(i)) = 1
           /\ scores[i] = <<1, 2>>

\* C2: the score of every instance with at least one other instance within
\* the threshold lies in the closed interval [0, 1].
C2_ScoreInUnitInterval ==
    SufficiencyDone =>
        \A i \in Instances(batch_size) :
            ConnectedOthers(i) # {} =>
                Leq(Num(0), scores[i]) /\ Leq(scores[i], Num(1))

\* C2 witness: both ends of the interval and an inner value are reached by
\* instances that have neighbours.
C2_Witness ==
    /\ SufficiencyDone
    /\ \E i, j, k \in Instances(batch_size) :
           /\ ConnectedOthers(i) # {} /\ scores[i] = Num(0)
           /\ ConnectedOthers(j) # {} /\ scores[j] = Num(1)
           /\ ConnectedOthers(k) # {} /\ scores[k] = <<1, 2>>

\* C3: an instance without any other instance within the threshold scores
\* exactly 0: its divisor is +inf, and no divisor is ever zero.
C3_NoNeighbourScoresZero ==
    SufficiencyDone =>
        /\ \A i \in Instances(batch_size) :
               ConnectedOthers(i) = {} =>
                   scores[i] = Num(0) /\ divisor[i] = Inf
        /\ \A i \in Instances(batch_size) :
               divisor[i] # Num(0) /\ ~IsNaN(scores[i])

\* C3 witness: an isolated instance that is within the threshold of itself
\* has been scored, in a batch of one and in a larger batch.
C3_Witness ==
    /\ SufficiencyDone
    /\ \E i \in Instances(batch_size) :
           /\ ConnectedOthers(i) = {}
           /\ sim_in[i][i] = 1
           /\ scores[i] = Num(0)
           /\ batch_size > 1
           /\ \E k \in Instances(batch_size) : ConnectedOthers(k) # {}

\* C4: the diagonal entry of the received matrix contributes to neither the
\* denominator (low_dist_freqs) nor the numerator of any instance, whatever
\* its value.
C4_SelfExcluded ==
    SufficiencyDone =>
        \A i \in Instances(batch_size) :
            /\ low_dist_freqs[i] = Cardinality(ConnectedOthers(i))
            /\ same_class_freqs[i] = Cardinality(SameClassOthers(i))

\* C4 witness: a batch in which one instance had diagonal entry 1 and another
\* had diagonal entry 0, both with a connected other instance.
C4_Witness ==
    /\ SufficiencyDone
    /\ \E i, j \in Instances(batch_size) :
           /\ sim_in[i][i] = 1 /\ ConnectedOthers(i) # {}
           /\ sim_in[j][j] = 0 /\ ConnectedOthers(j) # {}

\* The batch of the scenario: four instances at distance 0 from each other,
\* predicted classes [0, 0, 1, 1].
C5_Scenario ==
    /\ IsSufficiency
    /\ batch_size = 4
    /\ \A i, j \in Instances(4) : dist_matrix[i][j] = 0
    /\ y_pred_classes[1] = 0 /\ y_pred_classes[2] = 0
    /\ y_pred_classes[3] = 1 /\ y_pred_classes[4] = 1

\* C5: in the scenario every instance scores exactly 1/3.
C5_ScenarioScores ==
    (C5_Scenario /\ pc = "done") =>
        \A i \in Instances(4) : scores[i] = <<1, 3>>

\* C5 witness: the scenario has been evaluated.
C5_Witness ==
    /\ C5_Scenario
    /\ pc = "done"
    /\ \A i, j \in Instances(4) : sim_in[i][j] = 1

\* ------------------------------------------ robustness metrics: properties
IsMaxSensitivity == metric = "MaxSensitivity"
IsRRS == metric = "RelativeRepresentationStability"

\* The value stored for instance i and sample s in the results array.
Stored(i, s) == IF IsMaxSensitivity THEN similarities[i][s] ELSE rrs_batch[s][i]

\* The numeric value the code computes for instance i in sample s, from the
\* attribution (and representation) of the original and the perturbed batch.
Computed(i, s) ==
    IF IsMaxSensitivity
    THEN Reduce(Abs(a_batch[i] - a_perturbed[s][i]), Abs(a_batch[i]))
    ELSE Objective(internal_representations, reps_perturbed[s], a_batch,
                   a_perturbed[s], batch_size)[i]

\* evaluate_batch has returned the scores of an aggregated RRS call.
Aggregated == IsRRS /\ pc = "done" /\ return_aggregate

\* C6: evaluate_batch returns one score per batch position, in batch order
\* (score k is the score of instance k), or a single score when aggregation
\* was requested.
C6_OneScorePerInstance ==
    pc = "done" =>
        IF Aggregated
        THEN DOMAIN scores = 1..1
        ELSE /\ DOMAIN scores = Instances(batch_size)
             /\ \A k \in Instances(batch_size) :
                    IF IsSufficiency
                    THEN scores[k][1] * (IF low_dist_freqs[k] = 0 THEN 1
                                         ELSE low_dist_freqs[k])
                             = same_class_freqs[k] * scores[k][2]
                    ELSE \E s \in Samples(nr_samples) : scores[k] = Stored(k, s)

\* C6 witness: a batch of two evaluated by RelativeRepresentationStability
\* with aggregation, one score returned.
C6_Witness ==
    /\ Aggregated
    /\ batch_size = 2
    /\ DOMAIN scores = 1..1

\* C6 witness of the other case, kept for reference: two scores that differ.
C6_WitnessPerInstance ==
    /\ IsMaxSensitivity /\ pc = "done"
    /\ batch_size = 2 /\ nr_samples = 2
    /\ scores[1] # scores[2]

\* C7: once sample s has been processed, with masking enabled the stored value
\* of every instance whose prediction changed in sample s is NaN (also after
\* later samples); with masking disabled the detector returns no index and the
\* stored value is the computed one.
C7_MaskingPerSample ==
    ((IsMaxSensitivity \/ IsRRS) /\ pc \in {"loop", "done"}) =>
        /\ \A s \in 1..step_id : \A i \in prediction_changed[s] :
               IF return_nan THEN IsNaN(Stored(i, s))
               ELSE Stored(i, s) = Computed(i, s)
        /\ ~return_nan => changed_prediction_indices = {}

\* C7 witness: masking enabled, the prediction of instance 1 changed in the
\* first of two samples; its computed value was a number, and the second
\* sample has been stored since.
C7_Witness ==
    /\ IsMaxSensitivity
    /\ pc = "loop"
    /\ return_nan
    /\ step_id = 2
    /\ 1 \in prediction_changed[1]
    /\ 1 \notin prediction_changed[2]
    /\ IsFinite(Computed(1, 1))
    /\ IsNaN(Stored(1, 1))
    /\ IsFinite(Stored(1, 2))

\* C7 witness for masking disabled: a changed prediction and a number stored.
C7_WitnessDisabled ==
    /\ IsRRS
    /\ pc = "loop"
    /\ ~return_nan
    /\ step_id = 1
    /\ 1 \in prediction_changed[1]
    /\ IsFinite(Stored(1, 1))
    /\ Stored(1, 1) # Num(0)

MaxSensitivityDone == IsMaxSensitivity /\ pc = "done"

\* The prediction of instance i changed in at least one sample.
EverChanged(i) == \E s \in 1..step_id : i \in prediction_changed[s]

\* C8 as claimed: the final score of every instance with non-zero attribution
\* norm is >= 0, masking enabled or not.
C8_Original ==
    MaxSensitivityDone =>
        \A i \in Instances(batch_size) :
            a_batch[i] # 0 => Leq(Num(0), scores[i])

\* C8 amended: the final score of every instance with non-zero attribution
\* norm is >= 0, except that with masking enabled it is NaN when the
\* prediction of the instance changed in at least one sample.
C8_NonNegativeOrMasked ==
    MaxSensitivityDone =>
        \A i \in Instances(batch_size) :
            a_batch[i] # 0 =>
                IF return_nan /\ EverChanged(i)
                THEN IsNaN(scores[i])
                ELSE Leq(Num(0), scores[i])

\* C8 witness: masking enabled, two instances of non-zero norm, one masked in
\* one of two samples (score NaN), the other never (score a number).
C8_Witness ==
    /\ MaxSensitivityDone
    /\ return_nan
    /\ batch_size = 2 /\ nr_samples = 2
    /\ a_batch[1] # 0 /\ a_batch[2] # 0
    /\ EverChanged(1) /\ ~EverChanged(2)
    /\ IsNaN(scores[1])
    /\ Less(Num(0), scores[2])

\* The score evaluate_batch returns for instance i when nr_samples is k, for
\* the realisations of the first k samples of this run.
ScoreOver(i, k) == MaxOverSamples(max_func, similarities, batch_size, k)[i]

\* C9: the score over the first N + k samples is never lower than the score
\* over the first N samples (N >= 1), whatever the configuration.
C9_NeverLower ==
    (IsMaxSensitivity /\ pc \in {"loop", "done"}) =>
        \A i \in Instances(batch_size) :
            \A n1 \in 1..step_id : \A n2 \in n1..step_id :
                ~Less(ScoreOver(i, n2), ScoreOver(i, n1))

\* C9 witness: masking enabled; the score of instance 1 rose from the first
\* sample to the second, the score of instance 2 kept its value, and what
\* evaluate_batch returned is the score over both samples.
C9_Witness ==
    /\ MaxSensitivityDone
    /\ return_nan
    /\ batch_size = 2 /\ nr_samples = 2
    /\ Less(ScoreOver(1, 1), ScoreOver(1, 2))
    /\ ScoreOver(2, 1) = ScoreOver(2, 2)
    /\ IsFinite(ScoreOver(2, 2))
    /\ scores[1] = ScoreOver(1, 2)

\* The scenario: one sample, the perturbation returned the batch unchanged, so
\* that the explanation of the perturbed batch is the original attribution
\* and no prediction changed.
C11_Scenario ==
    /\ MaxSensitivityDone
    /\ nr_samples = 1
    /\ a_perturbed[1] = a_batch
    /\ prediction_changed[1] = {}

\* C11: in the scenario the score of every instance whose attribution has a
\* non-zero norm is exactly 0.
C11_UnperturbedScoresZero ==
    C11_Scenario =>
        \A i \in Instances(batch_size) :
            a_batch[i] # 0 => scores[i] = Num(0)

\* C11 witness: the scenario with a batch of two, one attribution of non-zero
\* norm (score 0) and one of zero norm (score 0/0).
C11_Witness ==
    /\ C11_Scenario
    /\ batch_size = 2
    /\ a_batch[1] # 0 /\ scores[1] = Num(0)
    /\ a_batch[2] = 0 /\ IsNaN(scores[2])

ObjectiveReturned == IsRRS /\ pc = "returned"

\* The norm of the relative change of the representation of instance i, before
\* any floor is applied to it.
RepresentationChange(i) ==
    RelativeChangeNorm(internal_representations[i], reps_perturbed[1][i])

\* C12 as claimed: the objective of every instance is the norm of the relative
\* change of the attribution divided by max(norm of the relative change of the
\* representation, eps_min).
C12_Original ==
    ObjectiveReturned =>
        \A i \in Instances(batch_size) :
            scores[i] = Div(rrs_nominator[i],
                            MaxPair(RepresentationChange(i), EpsMin))

\* The divisor the objective applies to an element of original value v.
GuardOf(v) == IF v = 0 THEN EpsMin ELSE Num(v)

\* x is the change |orig - pert| divided by the guarded original value: a
\* finite number with x * guard = |orig - pert|.
IsGuardedQuotient(x, orig, pert) ==
    /\ IsFinite(x)
    /\ GuardOf(orig)[1] # 0
    /\ x[1] * GuardOf(orig)[1] = Abs(orig - pert) * GuardOf(orig)[2] * x[2]

\* C13: in both relative changes an element of original value exactly zero is
\* divided by eps_min, an element of non-zero original value by that value,
\* and no quotient is a division by zero.
C13_ZeroGuard ==
    ObjectiveReturned =>
        \A i \in Instances(batch_size) :
            /\ IsGuardedQuotient(rrs_nominator[i], a_batch[i], a_perturbed[1][i])
            /\ IF internal_representations[i] = reps_perturbed[1][i]
               THEN rrs_denominator[i] = EpsMin
               ELSE IsGuardedQuotient(rrs_denominator[i],
                                      internal_representations[i],
                                      reps_perturbed[1][i])
            /\ IsFinite(scores[i])

\* C13 witness: a batch of two; the attribution and the representation of
\* instance 1 are zero and were perturbed, those of instance 2 are not zero.
C13_Witness ==
    /\ ObjectiveReturned
    /\ batch_size = 2
    /\ a_batch[1] = 0 /\ a_perturbed[1][1] = MaxAttr
    /\ internal_representations[1] = 0 /\ reps_perturbed[1][1] = MaxRep
    /\ rrs_nominator[1] = Num(MaxAttr * EpsMinInv)
    /\ rrs_denominator[1] = Num(MaxRep * EpsMinInv)
    /\ a_batch[2] = MaxAttr /\ a_perturbed[1][2] = 0
    /\ rrs_nominator[2] = Num(1)

\* evaluate_batch of RelativeRepresentationStability has received a batch.
RRSBatchReceived ==
    /\ IsRRS
    /\ pc \in {"loop", "done", "error"}
    /\ error # LayersError

\* C14: for an attribution of rank outside {2, 3, 4} no sample is ever stored
\* and no scores are returned, and the rank error is raised for such a rank
\* only; for rank 2, 3 or 4 the rank check never fails and every processed
\* sample has one norm and one stored value per instance.
C14_RankCheck ==
    RRSBatchReceived =>
        IF a_ndim \in {2, 3, 4}
        THEN /\ error # RankError
             /\ step_id >= 1 =>
                    /\ DOMAIN rrs_nominator = Instances(batch_size)
                    /\ \A s \in 1..step_id :
                           DOMAIN rrs_batch[s] = Instances(batch_size)
        ELSE /\ scores = <<>>
             /\ pc # "done"
             /\ step_id = 0
             /\ pc = "error" => error \in {RankError, EmptyMaxError}

\* C14 witness: an attribution of rank 1 in a batch of two, the first sample
\* raised the rank error and nothing was returned.
C14_Witness ==
    /\ RRSBatchReceived
    /\ a_ndim = 1
    /\ batch_size = 2
    /\ pc = "error" /\ error = RankError
    /\ scores = <<>>

\* C14 witness of the other case: rank 4, two samples processed, scores
\* returned.
C14_WitnessSupported ==
    /\ RRSBatchReceived
    /\ a_ndim = 4
    /\ pc = "done" /\ step_id = 2
    /\ ~return_aggregate /\ DOMAIN scores = Instances(batch_size)

\* The calls that reach the model adapter or the explanation function.
ModelOrExplainCalls ==
    {k \in DOMAIN calls :
        calls[k] \in {"get_hidden_representations", "explain_batch",
                      "changed_prediction_indices_func"}}

\* C15 as claimed: when a configuration error (conflicting layer selectors,
\* unsupported attribution rank) has been raised, no call to the model adapter
\* or to the explanation function has been made.
C15_Original ==
    (IsRRS /\ pc = "error" /\ error \in {LayersError, RankError}) =>
        ModelOrExplainCalls = {}

\* C16 as claimed: with aggregation configured, the value a call returns for
\* a dataset is the aggregation function applied to the per-instance scores
\* of all its batches.
C16_Original ==
    (IsRRS /\ pc = "call_done" /\ return_aggregate) =>
        evaluation_scores =
            <<Aggregate(dataset_results, Len(dataset_results))>>

\* Instance k was masked in sample s: masking is enabled and its prediction
\* changed.
Masked(k, s) == return_nan /\ k \in prediction_changed[s]

\* The final score of instance k as a reduction of the entries of k alone.
OwnReduction(k) ==
    IF IsMaxSensitivity
    THEN ApplyMaxFunc(max_func, [s \in Samples(nr_samples) |-> Stored(k, s)],
                      nr_samples)
    ELSE NpMax([s \in Samples(nr_samples) |-> Stored(k, s)], nr_samples)

\* C17: whatever happens to the other instances of the batch (no neighbours,
\* NaN marks), the entry of an instance is computed from its own data: in
\* every sample in which it is not masked itself its stored value is its
\* computed value, its final score is the reduction of its own stored values,
\* and a Sufficiency score is the ratio of the instance's own counts.
C17_Isolation ==
    /\ SufficiencyDone =>
           \A k \in Instances(batch_size) :
               scores[k] = IF ConnectedOthers(k) = {} THEN Num(0)
                           ELSE Reduce(Cardinality(SameClassOthers(k)),
                                       Cardinality(ConnectedOthers(k)))
    /\ ((IsMaxSensitivity \/ IsRRS) /\ pc \in {"loop", "done"}) =>
           \A k \in Instances(batch_size) :
               /\ \A s \in 1..step_id :
                      ~Masked(k, s) => Stored(k, s) = Computed(k, s)
               /\ (pc = "done" /\ ~Aggregated) => scores[k] = OwnReduction(k)

\* C17 witness: RelativeRepresentationStability with masking enabled and no
\* aggregation, a batch of two, instance 1 masked in the only sample and
\* scored NaN, instance 2 not masked and scored its non-zero objective.
C17_Witness ==
    /\ IsRRS /\ pc = "done"
    /\ return_nan /\ ~return_aggregate
    /\ batch_size = 2 /\ nr_samples = 1
    /\ Masked(1, 1) /\ ~Masked(2, 1)
    /\ IsNaN(scores[1])
    /\ scores[2] = Computed(2, 1)
    /\ Less(Num(0), scores[2])

\* C17 witness for Sufficiency: an instance without neighbours scored 0 next
\* to an instance with neighbours scored 1/2.
C17_WitnessSufficiency ==
    /\ SufficiencyDone
    /\ \E i, k \in Instances(batch_size) :
           /\ ConnectedOthers(i) = {} /\ scores[i] = Num(0)
           /\ ConnectedOthers(k) # {} /\ scores[k] = <<1, 2>>

\* C18 as claimed: no step of evaluate_batch changes an array of the batch
\* context it received (similarity matrix, predicted classes, attribution).
C18_Original ==
    [][(pc = "evaluate" \/ pc = "loop") =>
          (a_sim_vector_batch' = a_sim_vector_batch
               /\ y_pred_classes' = y_pred_classes
               /\ a_batch' = a_batch)]_vars

\* The samples of instance i whose stored value is NaN, and the others.
NaNSamples(i) == {s \in Samples(nr_samples) : IsNaN(Stored(i, s))}
NumberSamples(i) == Samples(nr_samples) \ NaNSamples(i)

\* The samples in which instance i was marked NaN by the masking.
MarkedSamples(i) == {s \in Samples(nr_samples) : Masked(i, s)}

\* x is the largest of the values stored for instance i in the samples S.
IsMaxOfStored(x, i, S) ==
    /\ \E s \in S : x = Stored(i, s)
    /\ \A s \in S : Leq(Stored(i, s), x)

\* C19 as claimed: with masking enabled the final score is NaN if and only
\* if at least one sample of the instance was marked NaN.
C19_Original ==
    (MaxSensitivityDone /\ return_nan) =>
        \A i \in Instances(batch_size) :
            IsNaN(scores[i]) <=> MarkedSamples(i) # {}

\* C19 amended: the reduction is np.max with masking enabled and np.nanmax
\* with masking disabled.  With masking enabled the final score is NaN if and
\* only if at least one stored sample of the instance is NaN (marked, or 0/0
\* for an attribution of zero norm), and otherwise the maximum of all samples;
\* with masking disabled it is the maximum of the samples that are not NaN,
\* and NaN only if every sample is NaN.  For an attribution of non-zero norm
\* the NaN samples are exactly the marked ones.
C19_FinalReduction ==
    MaxSensitivityDone =>
        /\ max_func = (IF return_nan THEN "np.max" ELSE "np.nanmax")
        /\ \A i \in Instances(batch_size) :
               /\ IF return_nan
                  THEN IF NaNSamples(i) # {} THEN IsNaN(scores[i])
                       ELSE IsMaxOfStored(scores[i], i, Samples(nr_samples))
                  ELSE IF NumberSamples(i) = {} THEN IsNaN(scores[i])
                       ELSE IsMaxOfStored(scores[i], i, NumberSamples(i))
               /\ a_batch[i] # 0 => NaNSamples(i) = MarkedSamples(i)

\* C19 witness: masking enabled, two samples; instance 1 has zero norm, was
\* never marked and scores NaN, instance 2 was never marked and scores the
\* larger of its two different values.
C19_Witness ==
    /\ MaxSensitivityDone
    /\ return_nan
    /\ batch_size = 2 /\ nr_samples = 2
    /\ a_batch[1] = 0 /\ MarkedSamples(1) = {} /\ IsNaN(scores[1])
    /\ MarkedSamples(2) = {}
    /\ Less(Stored(2, 1), Stored(2, 2))
    /\ scores[2] = Stored(2, 2)

\* C19 witness with masking disabled: a NaN sample (0/0) was skipped.
C19_WitnessSkipped ==
    /\ MaxSensitivityDone
    /\ ~return_nan
    /\ nr_samples = 2
    /\ IsNaN(Stored(1, 1)) /\ ~IsNaN(Stored(1, 2))
    /\ scores[1] = Stored(1, 2)

\* The largest of the objective values computed for instance i in the
\* nr_samples samples.
MaxComputed(i) ==
    CHOOSE x \in {Computed(i, s) : s \in Samples(nr_samples)} :
        \A s \in Samples(nr_samples) : Leq(Computed(i, s), x)

\* The final score the claim gives instance i.
ClaimedRRSScore(i) ==
    IF return_nan /\ EverChanged(i) THEN NaN ELSE MaxComputed(i)

\* C20: with masking enabled the final score of an instance is NaN if its
\* prediction changed in at least one sample and otherwise the maximum of
\* its per-sample objective values; with masking disabled it is always that
\* maximum.  (With return_aggregate the call returns the aggregate of these
\* final scores.)
C20_RRSFinalReduction ==
    (IsRRS /\ pc = "done") =>
        scores = BatchReturn(return_aggregate,
                             [i \in Instances(batch_size) |-> ClaimedRRSScore(i)],
                             batch_size)

\* C20 witness: masking enabled, no aggregation, one instance and two
\* samples; the objective of the first sample is a positive number, the
\* prediction changed in the second sample only, and the final score is NaN.
C20_Witness ==
    /\ IsRRS /\ pc = "done"
    /\ return_nan /\ ~return_aggregate
    /\ batch_size = 1 /\ nr_samples = 2
    /\ 1 \notin prediction_changed[1] /\ 1 \in prediction_changed[2]
    /\ Less(Num(0), Computed(1, 1))
    /\ IsNaN(scores[1])

\* C20 witness of the other cases: masking disabled, the prediction changed
\* and the final score is the larger of two different objective values.
C20_WitnessMax ==
    /\ IsRRS /\ pc = "done"
    /\ ~return_nan /\ ~return_aggregate
    /\ batch_size = 1 /\ nr_samples = 2
    /\ 1 \in prediction_changed[1]
    /\ Less(Computed(1, 2), Computed(1, 1))
    /\ scores[1] = Computed(1, 1)

\* The call of MaxSensitivity has gone past the construction.
MaxSensitivityCalled == IsMaxSensitivity /\ pc \notin {"new", "constructed"}

\* C21 as claimed: an evaluation fails for a missing explanation function
\* only when no precomputed attribution was supplied.
C21_Original ==
    (IsMaxSensitivity /\ pc = "error" /\ error = ExplainFuncError) =>
        ~a_batch_supplied

\* C21 amended: a call of MaxSensitivity without an explanation function
\* always fails, before evaluate_batch makes any perturbation, prediction or
\* explanation call: in the engine's preparation when no a_batch was
\* supplied, in custom_preprocess when a_batch was supplied; a call with an
\* explanation function never fails for it.
C21_ExplainFuncRequired ==
    MaxSensitivityCalled =>
        IF explain_func = None
        THEN /\ pc \in {"custom_preprocess", "error"}
             /\ pc = "error" =>
                    /\ error = ExplainFuncError
                    /\ calls = IF a_batch_supplied
                               THEN <<"assert_explain_func">> ELSE <<>>
        ELSE error # ExplainFuncError

\* C21 witness: a_batch was supplied, no explanation function, and
\* custom_preprocess has raised.
C21_Witness ==
    /\ IsMaxSensitivity
    /\ a_batch_supplied /\ explain_func = None
    /\ pc = "error" /\ error = ExplainFuncError
    /\ calls = <<"assert_explain_func">>

\* C22: the value stored for a sample is norm(a - a_perturbed) / norm(a)
\* without a guard: for an instance whose attribution has zero norm it is not
\* finite (+inf, or NaN for 0/0), it is not replaced by 0, no error is
\* raised, and the entries of the instances of non-zero norm are the finite
\* quotients.
C22_UnguardedDenominator ==
    (IsMaxSensitivity /\ pc \in {"loop", "done"}) =>
        /\ error = None
        /\ \A s \in 1..step_id : \A i \in Instances(batch_size) :
               IF a_batch[i] = 0
               THEN /\ ~IsFinite(Stored(i, s))
                    /\ ~Masked(i, s) =>
                           Stored(i, s) = IF a_perturbed[s][i] = 0 THEN NaN ELSE Inf
               ELSE ~Masked(i, s) =>
                        /\ IsFinite(Stored(i, s))
                        /\ Stored(i, s)[1] * Abs(a_batch[i])
                               = Abs(a_batch[i] - a_perturbed[s][i]) * Stored(i, s)[2]

\* C22 witness: a batch of two evaluated over two samples; the attribution
\* of instance 1 has zero norm and its values are +inf and NaN, instance 2
\* has a finite score.
C22_Witness ==
    /\ MaxSensitivityDone
    /\ batch_size = 2 /\ nr_samples = 2
    /\ a_batch[1] = 0 /\ a_batch[2] # 0
    /\ Stored(1, 1) = Inf /\ Stored(1, 2) = NaN
    /\ ~Masked(1, 2)
    /\ IsFinite(scores[2])
    /\ ~IsFinite(scores[1])

\* The number of features of one instance of x_batch.
Features == x_batch.shape[2] * x_batch.shape[3]

\* C23: perturb_func receives the batch flattened to (batch_size, F) with
\* the entries of x_batch in their order, and for every instance the same
\* index row 0, ..., F - 1 covering every feature; the perturbed batch has
\* the shape of x_batch.
C23_PerturbArguments ==
    pc = "perturbed" =>
        /\ perturb_arr.shape = <<batch_size, Features>>
        /\ perturb_arr.data = x_batch.data
        /\ DOMAIN perturb_indices = Instances(batch_size)
        /\ \A i \in Instances(batch_size) :
               /\ DOMAIN perturb_indices[i] = 1..Features
               /\ {perturb_indices[i][j] : j \in 1..Features} = 0..(Features - 1)
               /\ perturb_indices[i] = perturb_indices[1]
        /\ x_perturbed.shape = x_batch.shape
        /\ Len(x_perturbed.data) = Len(x_batch.data)

\* C23 witness: a batch of two instances of 1 x 2 features was perturbed by
\* RelativeRepresentationStability and the perturbed batch differs from it.
C23_Witness ==
    /\ IsRRS /\ pc = "perturbed"
    /\ x_batch.shape = <<2, 1, 2>>
    /\ perturb_arr.shape = <<2, 2>>
    /\ perturb_indices = <<(<<0, 1>>), (<<0, 1>>)>>
    /\ x_perturbed.shape = <<2, 1, 2>>
    /\ x_perturbed.data # x_batch.data

RECURSIVE Repeated(_, _)
\* The sequence seq, k times over.
Repeated(seq, k) == IF k = 0 THEN <<>> ELSE Repeated(seq, k - 1) \o seq

\* The value iteration s leaves in the slot of instance i.
WrittenValue(i, s) == IF Masked(i, s) THEN NaN ELSE Computed(i, s)

IsPerturbDetectExplain(c) ==
    c \in {"perturb_func", "changed_prediction_indices_func", "explain_batch"}

\* C24: after k iterations the perturbation, detection and explanation calls
\* made are k repetitions of perturb, detect, explain (so each was invoked
\* nr_samples times when evaluate_batch returns), the values of the first k
\* samples are stored and marked, and no later sample has been touched.
C24_MaxSensitivityCallSequence ==
    (IsMaxSensitivity /\ pc \in {"loop", "done"}) =>
        /\ SelectSeq(calls, IsPerturbDetectExplain)
               = Repeated(<<"perturb_func", "changed_prediction_indices_func",
                            "explain_batch">>, step_id)
        /\ pc = "done" => step_id = nr_samples
        /\ \A i \in Instances(batch_size) :
               /\ \A s \in 1..step_id : Stored(i, s) = WrittenValue(i, s)
               /\ \A s \in (step_id + 1)..nr_samples : IsNaN(Stored(i, s))

\* C24 witness: two samples processed and evaluate_batch has returned: six
\* calls in the claimed order.
C24_Witness ==
    /\ MaxSensitivityDone
    /\ nr_samples = 2
    /\ SelectSeq(calls, IsPerturbDetectExplain)
           = <<"perturb_func", "changed_prediction_indices_func", "explain_batch",
               "perturb_func", "changed_prediction_indices_func", "explain_batch">>

\* The calls of RelativeRepresentationStability.evaluate_batch after k
\* iterations, as claimed.
ClaimedRRSCalls(k) ==
    <<"get_hidden_representations">>
        \o Repeated(<<"perturb_func", "explain_batch",
                       "get_hidden_representations",
                       "relative_representation_stability_objective",
                       "changed_prediction_indices_func">>, k)

IsGetHiddenRepresentations(c) == c = "get_hidden_representations"

\* C25: the representations of the original batch are fetched once, before
\* the first perturbation, and every sample's objective is computed from
\* them; per sample the order is perturb, explain, fetch, objective (stored),
\* detect (marked); get_hidden_representations has been called once more
\* than there are processed samples, nr_samples + 1 times at the return.
C25_RRSCallSequence ==
    (IsRRS /\ pc \in {"loop", "done"}) =>
        /\ calls = ClaimedRRSCalls(step_id)
        /\ Len(SelectSeq(calls, IsGetHiddenRepresentations)) = step_id + 1
        /\ pc = "done" => step_id = nr_samples
        /\ \A i \in Instances(batch_size) : \A s \in 1..step_id :
               Stored(i, s) = WrittenValue(i, s)

\* C25 witness: two samples processed and evaluate_batch has returned after
\* three calls of get_hidden_representations.
C25_Witness ==
    /\ IsRRS /\ pc = "done"
    /\ nr_samples = 2
    /\ Len(SelectSeq(calls, IsGetHiddenRepresentations)) = 3
    /\ calls[1] = "get_hidden_representations"
    /\ calls[2] = "perturb_func"
    /\ reps_perturbed[1] # reps_perturbed[2]

\* C26: an iteration of the loop changes the slot of its own sample only,
\* and when the loop has ended every slot holds the value its own iteration
\* wrote.
C26_OwnSlotOnly ==
    /\ []((( IsMaxSensitivity \/ IsRRS) /\ pc = "done") =>
             \A i \in Instances(batch_size) : \A s \in Samples(nr_samples) :
                 Stored(i, s) = WrittenValue(i, s))
    /\ [][((IsMaxSensitivity \/ IsRRS) /\ pc = "loop" /\ pc' = "loop") =>
             \A i \in Instances(batch_size) :
                 \A s \in Samples(nr_samples) \ {step_id + 1} :
                     Stored(i, s)' = Stored(i, s)]_vars

\* C26 witness: MaxSensitivity, two samples processed; the two slots of
\* instance 1 hold the different values of their own iterations.
C26_Witness ==
    /\ IsMaxSensitivity /\ pc = "loop"
    /\ step_id = 2
    /\ IsFinite(Stored(1, 1)) /\ IsFinite(Stored(1, 2))
    /\ Stored(1, 1) # Stored(1, 2)
    /\ Stored(1, 1) = Computed(1, 1)

\* The preprocessing has returned and evaluate_batch has not been entered.
Preprocessed == IsSufficiency /\ pc = "evaluate"

Symmetric(mat, n) == \A i, j \in Instances(n) : mat[i][j] = mat[j][i]

\* C27: the matrix custom_batch_preprocess returns holds 1 where the
\* normalised distance is at most the threshold (equal included) and 0
\* elsewhere, nothing but 0 and 1, and is symmetric when the distance
\* matrix is.
C27_Adjacency ==
    Preprocessed =>
        /\ \A i, j \in Instances(batch_size) :
               /\ a_sim_vector_batch[i][j] \in {0, 1}
               /\ a_sim_vector_batch[i][j] = 1 <=> dist_matrix[i][j] <= threshold
               /\ a_sim_vector_batch[i][j] = 0 <=> dist_matrix[i][j] > threshold
        /\ Symmetric(dist_matrix, batch_size)
               => Symmetric(a_sim_vector_batch, batch_size)

\* C27 witness: a symmetric distance matrix with a pair at the threshold,
\* connected, and a pair above it, not connected.
C27_Witness ==
    /\ Preprocessed
    /\ Symmetric(dist_matrix, batch_size)
    /\ \E i, j, k \in Instances(batch_size) :
           /\ i # j /\ i # k
           /\ dist_matrix[i][j] = threshold /\ a_sim_vector_batch[i][j] = 1
           /\ dist_matrix[i][k] > threshold /\ a_sim_vector_batch[i][k] = 0

\* evaluate_batch has returned from its second call on the same objects.
CalledAgain == IsSufficiency /\ pc = "done_again"

\* C28: a second call of evaluate_batch with the objects of the first call
\* returns the scores the first call returned.
C28_Idempotent ==
    CalledAgain => scores = previous_scores

\* C28 witness: the second call has returned; the matrix the first call
\* received had a self-loop, and an instance is scored 1/2 both times.
C28_Witness ==
    /\ CalledAgain
    /\ \E i \in Instances(batch_size) :
           /\ sim_in[i][i] = 1
           /\ a_sim_vector_batch[i][i] = 0
           /\ scores[i] = <<1, 2>>
           /\ previous_scores[i] = <<1, 2>>

IsSampleCall(c) ==
    c \in {"perturb_func", "explain_batch", "changed_prediction_indices_func"}

\* C29: with nr_samples = 0 evaluate_batch makes no perturbation,
\* explanation or changed-prediction call and never returns scores, and the
\* step it takes from the (empty) loop raises the error of the maximum over
\* an empty axis.
C29_NoSamples ==
    /\ [](((IsMaxSensitivity \/ IsRRS) /\ nr_samples = 0) =>
             /\ pc # "done"
             /\ scores = <<>>
             /\ SelectSeq(calls, IsSampleCall) = <<>>
             /\ pc = "loop" => step_id = 0)
    /\ [][((IsMaxSensitivity \/ IsRRS) /\ nr_samples = 0 /\ pc = "loop") =>
             (pc' = "error" /\ error' = EmptyMaxError /\ scores' = <<>>)]_vars

\* C29 witness: MaxSensitivity.evaluate_batch was entered with nr_samples = 0
\* and has raised; the explanation function was checked, nothing else called.
C29_Witness ==
    /\ IsMaxSensitivity
    /\ nr_samples = 0
    /\ pc = "error" /\ error = EmptyMaxError
    /\ calls = <<"assert_explain_func">>
    /\ scores = <<>>

\* The same for RelativeRepresentationStability: the representations of the
\* original batch were fetched, nothing else called.
C29_WitnessRRS ==
    /\ IsRRS
    /\ nr_samples = 0
    /\ pc = "error" /\ error = EmptyMaxError
    /\ calls = <<"get_hidden_representations">>
    /\ scores = <<>>

\* The constructor raised: the call chain ended in an error before any batch
\* was evaluated.
ConstructionFailed ==
    /\ pc = "error"
    /\ error = LayersError

\* C10: construction fails, and no instance ever evaluates a batch, exactly
\* when layer_names and layer_indices are both given.
C10_ConflictingLayersRaise ==
    (IsRRS /\ pc # "new") =>
        IF layer_names # None /\ layer_indices # None
        THEN ConstructionFailed /\ scores = <<>> /\ step_id = None
        ELSE error # LayersError

\* C10 witness: both selectors given and the constructor has raised.
C10_Witness ==
    /\ IsRRS
    /\ layer_names = Given /\ layer_indices = Given
    /\ ConstructionFailed

\* C10 witness of the other case: only layer_indices given, a batch evaluated.
C10_WitnessConstructed ==
    /\ IsRRS
    /\ layer_names = None /\ layer_indices = Given
    /\ pc = "done"

====
